---- MODULE Spec2Model ----
(***************************************************************************)
(* Classwork & Homework Tracker (src/app.py): the five SQLite tables, the  *)
(* per-browser cookie jar, and the student and teacher handlers of the     *)
(* Streamlit script.  Every SQL statement is one atomic step (run() is     *)
(* execute + commit on the one shared connection); a handler that issues   *)
(* several statements is a sequence of steps that other sessions' steps    *)
(* may interleave with, since each browser session runs the script in its  *)
(* own thread.                                                             *)
(***************************************************************************)
EXTENDS Naturals, FiniteSets, Sequences, TLC

\* ----------------------------------------------------------------- bounds
MaxTeachers    == 2   \* rows ever inserted into teachers
MaxClasses     == 2   \* rows ever inserted into classes
MaxStudents    == 2   \* rows ever inserted into students
MaxAssignments == 1   \* rows ever inserted into assignments
NumCodes       == 2   \* size of the access-code space code() draws from

MaxSubmissions == MaxAssignments * MaxStudents + 1

Sessions  == {"b1", "b2", "b3"}          \* browser sessions (cookie jars)
AllCodes  == <<"3H8KQZ", "A1B2C3", "ZZ99ZZ", "000000">>
Codes     == {AllCodes[i] : i \in 1..NumCodes}
Usernames == {"ms_lee", "mr_kim"}
Passwords == {"hunter22", "wrong"}
Salts     == {"salt1", "salt2"}
AllNames  == <<"Ava", "Ben", "Cy", "Dee">>
Names     == {AllNames[i] : i \in 1..MaxStudents}
Titles    == {"", "Essay"}

\* .streamlit/secrets.toml as (key, value) pairs: admin_password missing, empty or set
AdminSecrets == {{}} \cup {{<<"admin_password", v>>} : v \in {"", "letmein"}}
Deployed     == {<<"admin_password", "letmein">>}
AdminInputs  == {"", "letmein", "guess"}  \* st.text_input("Admin password")

NULL   == "NULL"
UtcNow == "utcnow"                       \* datetime.utcnow().isoformat()

\* The dates st.date_input hands to the script (its range is today +/- ten years)
Date(y, m, d) == [year |-> y, month |-> m, day |-> d]
DateInputs == {Date(2023, 12, 31), Date(2024, 1, 15), Date(2024, 3, 1)}

\* date.isoformat(): YYYY-MM-DD
isoformat(d) ==
    CASE d = Date(2023, 12, 31) -> "2023-12-31"
      [] d = Date(2024, 1, 15)  -> "2024-01-15"
      [] d = Date(2024, 3, 1)   -> "2024-03-01"

\* due_str = due.isoformat() if isinstance(due, date) else None
Dues == {NULL} \cup {isoformat(d) : d \in DateInputs}

\* The bytes of the TEXT values that the ORDER BY clauses compare
\* ('-' is 45, '0'..'9' are 48..57)
Bytes(text) ==
    CASE text = "2023-12-31" -> <<50, 48, 50, 51, 45, 49, 50, 45, 51, 49>>
      [] text = "2024-01-15" -> <<50, 48, 50, 52, 45, 48, 49, 45, 49, 53>>
      [] text = "2024-03-01" -> <<50, 48, 50, 52, 45, 48, 51, 45, 48, 49>>
      [] text = "9999-12-31" -> <<57, 57, 57, 57, 45, 49, 50, 45, 51, 49>>

VARIABLES
    teachers,     \* rows [id, username, password_hash]
    classes,      \* rows [id, teacher_id, access_code]
    students,     \* rows [id, name, class_id]
    assignments,  \* rows [id, class_id, title, due_date]
    submissions,  \* rows [id, assignment_id, student_id, status, completed_at]
    seq,          \* sqlite_sequence: the last AUTOINCREMENT id of each table
    cookies,      \* cookies[b]: the cookie jar of browser session b
    pc,           \* pc[b]: where session b's running script is
    last,         \* the script run that finished last: browser, handler step, outcome
    secrets       \* st.secrets, fixed when the app is deployed

vars == <<teachers, classes, students, assignments, submissions, seq, cookies, pc, last,
          secrets>>
db   == <<teachers, classes, students, assignments, submissions, seq>>

\* ------------------------------------------------------------- connection
\* get_conn opens the database and issues no PRAGMA foreign_keys = ON, so the
\* connection runs with SQLite's default: foreign keys are not enforced and
\* the ON DELETE CASCADE clauses of the schema take no effect.
ForeignKeysOn == FALSE

Ids(table) == {r.id : r \in table}

\* ------------------------------------------------------- schema constraints
\* Faulty variant: the column declared without UNIQUE
TeacherUsernameFree_NoUnique(u) == TRUE

\* teachers.username TEXT UNIQUE
TeacherUsernameFree(u) == \A t \in teachers : t.username # u

\* classes.access_code TEXT UNIQUE (row `self` is the row being updated, 0 on insert)
AccessCodeFree(acode, self) ==
    \A c \in classes : c.id # self => c.access_code # acode

\* Faulty variant: the table declared without UNIQUE(name, class_id)
StudentNameFree_NoUnique(name, cid, self) == TRUE

\* students UNIQUE(name, class_id)
StudentNameFree(name, cid, self) ==
    \A r \in students : r.id # self => ~(r.name = name /\ r.class_id = cid)

\* Faulty variant: the table declared without UNIQUE(assignment_id, student_id)
SubmissionPairFree_NoUnique(aid, sid) == TRUE

\* submissions UNIQUE(assignment_id, student_id)
SubmissionPairFree(aid, sid) ==
    \A r \in submissions : ~(r.assignment_id = aid /\ r.student_id = sid)

\* FOREIGN KEY checks, enforced only when the connection enables them
FkClassOk(cid)      == ForeignKeysOn => cid \in Ids(classes)
FkTeacherOk(tid)    == ForeignKeysOn => tid \in Ids(teachers)
FkSubmissionOk(aid, sid) ==
    ForeignKeysOn => (aid \in Ids(assignments) /\ sid \in Ids(students))

\* ------------------------------------------------------------- utilities
b64(s)           == <<"b64", s>>
b64decode_str(s) == s[2]

\* bcrypt.hashpw(pw, salt): the salt is kept in the hash beside the digest
bcrypt_hashpw(pw, salt) == [salt |-> salt, digest |-> <<"bcrypt", salt, pw>>]
bcrypt_checkpw(pw, hashed) == bcrypt_hashpw(pw, hashed.salt) = hashed

hash_password(pw, salt) == b64(bcrypt_hashpw(pw, salt))

\* Faulty variant: the digest is not compared
check_password_AnyPassword(pw, stored_hash_b64) ==
    b64decode_str(stored_hash_b64).salt \in Salts
check_password(pw, stored_hash_b64) == bcrypt_checkpw(pw, b64decode_str(stored_hash_b64))

\* ---------------------------------------------------------------- cookies
NoCookies == [role |-> "none", student_id |-> 0, class_id |-> 0, student_name |-> "",
              teacher_id |-> 0, teacher_username |-> ""]

set_student_cookie(jar, student_id, class_id, name) ==
    [jar EXCEPT !.role = "student", !.student_id = student_id,
                !.class_id = class_id, !.student_name = name]

set_teacher_cookie(jar, teacher_id, username) ==
    [jar EXCEPT !.role = "teacher", !.teacher_id = teacher_id,
                !.teacher_username = username]

\* ------------------------------------------------------------ script runs
Idle == [at |-> "idle", cid |-> 0, aid |-> 0, sid |-> 0, name |-> ""]

Finish(b, op, res) ==
    /\ pc'   = [pc EXCEPT ![b] = Idle]
    /\ last' = [b |-> b, op |-> op, res |-> res]
    /\ UNCHANGED secrets

Goto(b, at, cid, aid, sid, name) ==
    /\ pc' = [pc EXCEPT ![b] = [at |-> at, cid |-> cid, aid |-> aid, sid |-> sid, name |-> name]]
    /\ UNCHANGED <<last, secrets>>

Init ==
    /\ teachers = {}
    /\ classes = {}
    /\ students = {}
    /\ assignments = {}
    /\ submissions = {}
    /\ seq = [teachers |-> 0, classes |-> 0, students |-> 0, assignments |-> 0, submissions |-> 0]
    /\ cookies = [b \in Sessions |-> NoCookies]
    /\ pc = [b \in Sessions |-> Idle]
    /\ last = [b |-> "none", op |-> "none", res |-> "none"]
    /\ secrets \in AdminSecrets

\* -------------------------------------------------------------- admin gate
\* st.secrets.get(key, default)
secrets_get(key, default) ==
    IF \E p \in secrets : p[1] = key
    THEN (CHOOSE p \in secrets : p[1] = key)[2]
    ELSE default

bool(text) == text # ""

\* Faulty variant: the input compared to the secret without bool(expected)
require_admin_NoSecretCheck(pass_input) ==
    LET expected == secrets_get("admin_password", "") IN
    pass_input = expected

require_admin(pass_input) ==
    LET expected == secrets_get("admin_password", "") IN
    bool(expected) /\ pass_input = expected

\* main, lines 581-589: the sidebar's role is "Admin"; no cookie is consulted
admin_view(b, pw) ==
    /\ pc[b].at = "idle"
    /\ Finish(b, "admin_view",
              IF require_admin(pw) THEN "admin_panel"
              ELSE IF bool(pw) THEN "Invalid admin password."
              ELSE "Enter the admin password to proceed.")
    /\ UNCHANGED <<db, cookies>>

\* ---------------------------------------------------------------- sign out
\* The "Sign out" button of student_home and of teacher_dashboard.
sign_out(b) ==
    /\ pc[b].at = "idle"
    /\ cookies[b].role \in {"student", "teacher"}
    /\ cookies' = [cookies EXCEPT ![b] = NoCookies]
    /\ Finish(b, "sign_out", "ok")
    /\ UNCHANGED db

\* ------------------------------------------------------------ teacher auth
\* teacher_signup: shown while the cookie's role is not "teacher".
teacher_signup(b, username, pw, pw2, salt) ==
    /\ pc[b].at = "idle"
    /\ cookies[b].role # "teacher"
    /\ IF username = "" \/ pw = "" \/ pw # pw2
       THEN /\ Finish(b, "teacher_signup", "ValidationError")
            /\ UNCHANGED <<db, cookies>>
       ELSE IF ~TeacherUsernameFree(username)
       THEN /\ Finish(b, "teacher_signup", "UsernameTaken")
            /\ UNCHANGED <<db, cookies>>
       ELSE /\ seq.teachers < MaxTeachers
            /\ LET id == seq.teachers + 1 IN
               /\ teachers' = teachers \cup
                     {[id |-> id, username |-> username,
                       password_hash |-> hash_password(pw, salt)]}
               /\ seq' = [seq EXCEPT !.teachers = id]
               /\ cookies' = [cookies EXCEPT ![b] = set_teacher_cookie(@, id, username)]
            /\ Finish(b, "teacher_signup", "ok")
            /\ UNCHANGED <<classes, students, assignments, submissions>>

\* teacher_login: shown while the cookie's role is not "teacher".
teacher_login(b, username, pw) ==
    /\ pc[b].at = "idle"
    /\ cookies[b].role # "teacher"
    /\ LET row == {t \in teachers : t.username = username} IN
       IF row = {} \/ ~check_password(pw, (CHOOSE t \in row : TRUE).password_hash)
       THEN /\ Finish(b, "teacher_login", "InvalidCredentials")
            /\ UNCHANGED cookies
       ELSE /\ cookies' = [cookies EXCEPT ![b] =
                              set_teacher_cookie(@, (CHOOSE t \in row : TRUE).id, username)]
            /\ Finish(b, "teacher_login", "ok")
    /\ UNCHANGED db

\* ----------------------------------------------------------------- queries
First(rows) == CHOOSE r \in rows : \A q \in rows : r.id <= q.id   \* .iloc[0]

\* COALESCE(s.status, 'pending') of the LEFT JOIN on submissions
StatusOf(aid, sid) ==
    LET rows == {r \in submissions : r.assignment_id = aid /\ r.student_id = sid} IN
    IF rows = {} THEN "pending" ELSE First(rows).status

\* Faulty variant: the class list without its WHERE teacher_id = ?
MyClasses_AllTeachers(b) == classes

\* SELECT ... FROM classes WHERE teacher_id = ? (the dashboard's class list)
MyClasses(b) == {c \in classes : c.teacher_id = cookies[b].teacher_id}

\* SELECT id, name FROM classes WHERE access_code = ?
ClassByCode(access_code) == {c \in classes : c.access_code = access_code}

AssignmentsOf(cid) == {a \in assignments : a.class_id = cid}
StudentsOf(cid)    == {r \in students : r.class_id = cid}

\* SQLite's BINARY collation of two TEXT values: memcmp, then the shorter first
TextLess(a, b) ==
    LET x == Bytes(a)
        y == Bytes(b) IN
    \/ \E i \in 1..Len(x) : /\ i <= Len(y)
                            /\ x[i] < y[i]
                            /\ \A j \in 1..(i - 1) : x[j] = y[j]
    \/ /\ Len(x) < Len(y)
       /\ \A j \in 1..Len(x) : x[j] = y[j]

COALESCE(value, default) == IF value = NULL THEN default ELSE value

\* Faulty variant: the second sort key ascending
OrderKeyBefore_IdAsc(r, o) ==
    LET kr == COALESCE(r.due_date, "9999-12-31")
        ko == COALESCE(o.due_date, "9999-12-31") IN
    TextLess(kr, ko) \/ (kr = ko /\ r.id <= o.id)

\* ORDER BY COALESCE(due_date, '9999-12-31') ASC, id DESC: row r is not after row o
OrderKeyBefore(r, o) ==
    LET kr == COALESCE(r.due_date, "9999-12-31")
        ko == COALESCE(o.due_date, "9999-12-31") IN
    TextLess(kr, ko) \/ (kr = ko /\ r.id >= o.id)

\* The result rows in the order the ORDER BY clause gives them
RECURSIVE OrderBy(_)
OrderBy(rows) ==
    IF rows = {} THEN <<>>
    ELSE LET first == CHOOSE r \in rows : \A o \in rows : OrderKeyBefore(r, o) IN
         <<first>> \o OrderBy(rows \ {first})

\* student_home, lines 202-210: assignments a LEFT JOIN submissions s ON
\* a.id = s.assignment_id AND s.student_id = ?  WHERE a.class_id = ?
\* (sub is the joined submission row, 0 when none matched; it is not selected)
StudentAssignmentRows(student_id, class_id) ==
    UNION {LET matched == {r \in submissions : r.assignment_id = a.id
                                               /\ r.student_id = student_id} IN
           IF matched = {}
           THEN {[id |-> a.id, title |-> a.title, due_date |-> a.due_date,
                  status |-> COALESCE(NULL, "pending"), completed_at |-> NULL, sub |-> 0]}
           ELSE {[id |-> a.id, title |-> a.title, due_date |-> a.due_date,
                  status |-> COALESCE(r.status, "pending"),
                  completed_at |-> r.completed_at, sub |-> r.id] : r \in matched}
           : a \in AssignmentsOf(class_id)}

StudentAssignmentList(student_id, class_id) ==
    OrderBy(StudentAssignmentRows(student_id, class_id))

\* teacher_dashboard, lines 334-336: SELECT ... FROM assignments WHERE class_id=? ORDER BY ...
TeacherAssignmentList(cid) == OrderBy(AssignmentsOf(cid))

\* -------------------------------------------------------------- statements
\* INSERT INTO submissions (assignment_id, student_id, status, completed_at)
\*   VALUES (?, ?, 'done', utcnow): TRUE when it raises sqlite3.IntegrityError
InsertSubmissionRaises(aid, sid) ==
    ~SubmissionPairFree(aid, sid) \/ ~FkSubmissionOk(aid, sid)

InsertSubmissionDone(aid, sid) ==
    /\ seq.submissions < MaxSubmissions
    /\ submissions' = submissions \cup
          {[id |-> seq.submissions + 1, assignment_id |-> aid, student_id |-> sid,
            status |-> "done", completed_at |-> UtcNow]}
    /\ seq' = [seq EXCEPT !.submissions = @ + 1]

\* Faulty variant: the UPDATE sets the status and forgets completed_at
UpdateSubmissionDone_NoStamp(aid, sid) ==
    /\ submissions' = {IF r.assignment_id = aid /\ r.student_id = sid
                       THEN [r EXCEPT !.status = "done"]
                       ELSE r : r \in submissions}
    /\ UNCHANGED seq

\* UPDATE submissions SET status='done', completed_at=? WHERE assignment_id=? AND student_id=?
UpdateSubmissionDone(aid, sid) ==
    /\ submissions' = {IF r.assignment_id = aid /\ r.student_id = sid
                       THEN [r EXCEPT !.status = "done", !.completed_at = UtcNow]
                       ELSE r : r \in submissions}
    /\ UNCHANGED seq

\* Faulty variant: the undo sets the status and leaves completed_at as it is
UpdateSubmissionPending_KeepStamp(aid, sid) ==
    /\ submissions' = {IF r.assignment_id = aid /\ r.student_id = sid
                       THEN [r EXCEPT !.status = "pending"]
                       ELSE r : r \in submissions}
    /\ UNCHANGED seq

\* UPDATE submissions SET status='pending', completed_at=NULL WHERE assignment_id=? AND student_id=?
UpdateSubmissionPending(aid, sid) ==
    /\ submissions' = {IF r.assignment_id = aid /\ r.student_id = sid
                       THEN [r EXCEPT !.status = "pending", !.completed_at = NULL]
                       ELSE r : r \in submissions}
    /\ UNCHANGED seq

\* teacher_dashboard, lines 371-372: the dashboard's own INSERT INTO submissions
\*   (assignment_id, student_id, status, completed_at) VALUES (?, ?, 'done', utcnow)
TeacherInsertSubmissionDone(aid, stuid) ==
    /\ seq.submissions < MaxSubmissions
    /\ submissions' = submissions \cup
          {[id |-> seq.submissions + 1, assignment_id |-> aid, student_id |-> stuid,
            status |-> "done", completed_at |-> UtcNow]}
    /\ seq' = [seq EXCEPT !.submissions = @ + 1]

\* lines 374-375: UPDATE submissions SET status='done', completed_at=? WHERE ...
TeacherUpdateSubmissionDone(aid, stuid) ==
    /\ submissions' = {IF r.assignment_id = aid /\ r.student_id = stuid
                       THEN [r EXCEPT !.status = "done", !.completed_at = UtcNow]
                       ELSE r : r \in submissions}
    /\ UNCHANGED seq

\* Faulty variant: the dashboard's undo leaves completed_at as it is
TeacherUpdateSubmissionPending_KeepStamp(aid, stuid) ==
    /\ submissions' = {IF r.assignment_id = aid /\ r.student_id = stuid
                       THEN [r EXCEPT !.status = "pending"]
                       ELSE r : r \in submissions}
    /\ UNCHANGED seq

\* lines 381-382: UPDATE submissions SET status='pending', completed_at=NULL WHERE ...
TeacherUpdateSubmissionPending(aid, stuid) ==
    /\ submissions' = {IF r.assignment_id = aid /\ r.student_id = stuid
                       THEN [r EXCEPT !.status = "pending", !.completed_at = NULL]
                       ELSE r : r \in submissions}
    /\ UNCHANGED seq

\* lines 368-369, 378-379: SELECT id FROM students WHERE name=? AND class_id=?, .iloc[0]
StudentIdByName(name, cid) ==
    First({r \in students : r.name = name /\ r.class_id = cid}).id

\* DELETE FROM classes WHERE id = ?, with the schema's ON DELETE CASCADE
\* clauses applied only when the connection enforces foreign keys
DeleteFromClasses(cid) ==
    /\ classes' = {c \in classes : c.id # cid}
    /\ IF ForeignKeysOn
       THEN LET goneStu == {r.id : r \in StudentsOf(cid)}
                goneAsg == {a.id : a \in AssignmentsOf(cid)} IN
            /\ students' = {r \in students : r.class_id # cid}
            /\ assignments' = {a \in assignments : a.class_id # cid}
            /\ submissions' = {r \in submissions : r.assignment_id \notin goneAsg
                                                   /\ r.student_id \notin goneStu}
       ELSE UNCHANGED <<students, assignments, submissions>>
    /\ UNCHANGED <<teachers, seq>>

\* ------------------------------------------------------------ student join
\* Form inputs are taken as the handlers see them, after .strip() / .upper().
\* student_join_view, lines 164-172: validation and the class lookup
student_join_lookup(b, student_name, access_code) ==
    /\ pc[b].at = "idle"
    /\ cookies[b].role # "student"
    /\ UNCHANGED <<db, cookies>>
    /\ IF student_name = "" \/ access_code = ""
       THEN Finish(b, "student_join_lookup", "ValidationError")
       ELSE LET cl == ClassByCode(access_code) IN
            IF cl = {}
            THEN Finish(b, "student_join_lookup", "ClassNotFound")
            ELSE /\ seq.students < MaxStudents \/ ~StudentNameFree(student_name, First(cl).id, 0)
                 /\ Goto(b, "join_insert", First(cl).id, 0, 0, student_name)

\* lines 174-177: INSERT INTO students, IntegrityError swallowed
student_join_insert(b) ==
    /\ pc[b].at = "join_insert"
    /\ IF StudentNameFree(pc[b].name, pc[b].cid, 0) /\ FkClassOk(pc[b].cid)
       THEN /\ seq.students < MaxStudents
            /\ students' = students \cup
                  {[id |-> seq.students + 1, name |-> pc[b].name, class_id |-> pc[b].cid]}
            /\ seq' = [seq EXCEPT !.students = @ + 1]
       ELSE UNCHANGED <<students, seq>>
    /\ Goto(b, "join_select", pc[b].cid, 0, 0, pc[b].name)
    /\ UNCHANGED <<teachers, classes, assignments, submissions, cookies>>

\* lines 178-182: SELECT id FROM students, .iloc[0], set_student_cookie
student_join_select(b) ==
    /\ pc[b].at = "join_select"
    /\ LET strow == {r \in students : r.name = pc[b].name /\ r.class_id = pc[b].cid} IN
       IF strow = {}
       THEN /\ Finish(b, "student_join_select", "IndexError")
            /\ UNCHANGED cookies
       ELSE /\ cookies' = [cookies EXCEPT ![b] =
                   set_student_cookie(@, First(strow).id, pc[b].cid, pc[b].name)]
            /\ Finish(b, "student_join_select", "ok")
    /\ UNCHANGED db

\* ------------------------------------------------------------ student home
\* student_home renders only for a student cookie whose class still exists
StudentHomeShown(b) ==
    /\ pc[b].at = "idle"
    /\ cookies[b].role = "student"
    /\ cookies[b].class_id \in Ids(classes)

\* lines 202-230: the rerun of a "Mark done" click reads the list; the button
\* exists only on a row whose status is not done
student_mark_done_click(b, aid) ==
    /\ StudentHomeShown(b)
    /\ aid \in Ids(AssignmentsOf(cookies[b].class_id))
    /\ StatusOf(aid, cookies[b].student_id) # "done"
    /\ Goto(b, "mkdone_insert", 0, aid, cookies[b].student_id, "")
    /\ UNCHANGED <<db, cookies>>

\* lines 231-233
student_mark_done_insert(b) ==
    /\ pc[b].at = "mkdone_insert"
    /\ IF InsertSubmissionRaises(pc[b].aid, pc[b].sid)
       THEN /\ Goto(b, "mkdone_update", 0, pc[b].aid, pc[b].sid, "")
            /\ UNCHANGED <<submissions, seq>>
       ELSE /\ InsertSubmissionDone(pc[b].aid, pc[b].sid)
            /\ Finish(b, "student_mark_done_insert", "ok")
    /\ UNCHANGED <<teachers, classes, students, assignments, cookies>>

\* lines 234-237
student_mark_done_update(b) ==
    /\ pc[b].at = "mkdone_update"
    /\ UpdateSubmissionDone(pc[b].aid, pc[b].sid)
    /\ Finish(b, "student_mark_done_update", "ok")
    /\ UNCHANGED <<teachers, classes, students, assignments, cookies>>

\* lines 238-240: the "Undo" button exists only on a row whose status is done
student_undo_click(b, aid) ==
    /\ StudentHomeShown(b)
    /\ aid \in Ids(AssignmentsOf(cookies[b].class_id))
    /\ StatusOf(aid, cookies[b].student_id) = "done"
    /\ Goto(b, "undo_update", 0, aid, cookies[b].student_id, "")
    /\ UNCHANGED <<db, cookies>>

\* lines 241-243
student_undo_update(b) ==
    /\ pc[b].at = "undo_update"
    /\ UpdateSubmissionPending(pc[b].aid, pc[b].sid)
    /\ Finish(b, "student_undo_update", "ok")
    /\ UNCHANGED <<teachers, classes, students, assignments, cookies>>

\* lines 247-253: the profile form; the UPDATE is not inside any try
student_update_name(b, new_name) ==
    /\ StudentHomeShown(b)
    /\ LET sid == cookies[b].student_id IN
       IF \E r \in students : r.id = sid /\ ~StudentNameFree(new_name, r.class_id, sid)
       THEN /\ Finish(b, "student_update_name", "IntegrityError")
            /\ UNCHANGED <<students, cookies>>
       ELSE /\ students' = {IF r.id = sid THEN [r EXCEPT !.name = new_name] ELSE r
                            : r \in students}
            /\ cookies' = [cookies EXCEPT ![b].student_name = new_name]
            /\ Finish(b, "student_update_name", "ok")
    /\ UNCHANGED <<teachers, classes, assignments, submissions, seq>>

\* ------------------------------------------------------- teacher dashboard
\* A button of the dashboard acts in the rerun its click starts: the rerun
\* reads the teacher's class list (and the tables under it) and then runs the
\* button's statement.  The reads and the first statement are one step here;
\* the INSERT and the UPDATE of "Mark done" are steps of their own.
DashboardShown(b) ==
    /\ pc[b].at = "idle"
    /\ cookies[b].role = "teacher"

\* lines 307-311: code(6) then INSERT INTO classes, not inside any try
create_class(b, acode) ==
    /\ DashboardShown(b)
    /\ IF ~AccessCodeFree(acode, 0) \/ ~FkTeacherOk(cookies[b].teacher_id)
       THEN /\ Finish(b, "create_class", "IntegrityError")
            /\ UNCHANGED <<classes, seq>>
       ELSE /\ seq.classes < MaxClasses
            /\ classes' = classes \cup
                  {[id |-> seq.classes + 1, teacher_id |-> cookies[b].teacher_id,
                    access_code |-> acode]}
            /\ seq' = [seq EXCEPT !.classes = @ + 1]
            /\ Finish(b, "create_class", "ok")
    /\ UNCHANGED <<teachers, students, assignments, submissions, cookies>>

\* lines 329-333: "Add assignment" of class cid; the title is not checked
add_assignment(b, cid, t, due) ==
    /\ DashboardShown(b)
    /\ cid \in Ids(MyClasses(b))
    /\ IF ~FkClassOk(cid)
       THEN /\ Finish(b, "add_assignment", "IntegrityError")
            /\ UNCHANGED <<assignments, seq>>
       ELSE /\ seq.assignments < MaxAssignments
            /\ assignments' = assignments \cup
                  {[id |-> seq.assignments + 1, class_id |-> cid, title |-> t,
                    due_date |-> due]}
            /\ seq' = [seq EXCEPT !.assignments = @ + 1]
            /\ Finish(b, "add_assignment", "ok")
    /\ UNCHANGED <<teachers, classes, students, submissions, cookies>>

\* lines 396-400: "Regenerate code" of class cid; the UPDATE is not inside any try
regenerate_code(b, cid, new_code) ==
    /\ DashboardShown(b)
    /\ cid \in Ids(MyClasses(b))
    /\ IF ~AccessCodeFree(new_code, cid)
       THEN /\ Finish(b, "regenerate_code", "IntegrityError")
            /\ UNCHANGED classes
       ELSE /\ classes' = {IF c.id = cid THEN [c EXCEPT !.access_code = new_code] ELSE c
                           : c \in classes}
            /\ Finish(b, "regenerate_code", "ok")
    /\ UNCHANGED <<teachers, students, assignments, submissions, seq, cookies>>

\* lines 401-404: "Delete class" of class cid
delete_class(b, cid) ==
    /\ DashboardShown(b)
    /\ cid \in Ids(MyClasses(b))
    /\ DeleteFromClasses(cid)
    /\ Finish(b, "delete_class", "ok")
    /\ UNCHANGED cookies

\* lines 343-369: the completion table of assignment aid in class cid; a
\* pending row carries "Mark done", whose click looks the student's id up by name
teacher_mark_done_click(b, cid, aid, sid) ==
    /\ DashboardShown(b)
    /\ cid \in Ids(MyClasses(b))
    /\ aid \in Ids(AssignmentsOf(cid))
    /\ sid \in Ids(StudentsOf(cid))
    /\ StatusOf(aid, sid) # "done"
    /\ LET rr == First({r \in StudentsOf(cid) : r.id = sid}) IN
       Goto(b, "tdone_insert", cid, aid, StudentIdByName(rr.name, cid), "")
    /\ UNCHANGED <<db, cookies>>

\* lines 370-372
teacher_mark_done_insert(b) ==
    /\ pc[b].at = "tdone_insert"
    /\ IF InsertSubmissionRaises(pc[b].aid, pc[b].sid)
       THEN /\ Goto(b, "tdone_update", pc[b].cid, pc[b].aid, pc[b].sid, "")
            /\ UNCHANGED <<submissions, seq>>
       ELSE /\ TeacherInsertSubmissionDone(pc[b].aid, pc[b].sid)
            /\ Finish(b, "teacher_mark_done_insert", "ok")
    /\ UNCHANGED <<teachers, classes, students, assignments, cookies>>

\* lines 373-376
teacher_mark_done_update(b) ==
    /\ pc[b].at = "tdone_update"
    /\ TeacherUpdateSubmissionDone(pc[b].aid, pc[b].sid)
    /\ Finish(b, "teacher_mark_done_update", "ok")
    /\ UNCHANGED <<teachers, classes, students, assignments, cookies>>

\* lines 377-380: a done row carries "Undo"
teacher_undo_click(b, cid, aid, sid) ==
    /\ DashboardShown(b)
    /\ cid \in Ids(MyClasses(b))
    /\ aid \in Ids(AssignmentsOf(cid))
    /\ sid \in Ids(StudentsOf(cid))
    /\ StatusOf(aid, sid) = "done"
    /\ LET rr == First({r \in StudentsOf(cid) : r.id = sid}) IN
       Goto(b, "tundo_update", cid, aid, StudentIdByName(rr.name, cid), "")
    /\ UNCHANGED <<db, cookies>>

\* lines 381-383
teacher_undo_update(b) ==
    /\ pc[b].at = "tundo_update"
    /\ TeacherUpdateSubmissionPending(pc[b].aid, pc[b].sid)
    /\ Finish(b, "teacher_undo_update", "ok")
    /\ UNCHANGED <<teachers, classes, students, assignments, cookies>>

ClassIds      == 1..MaxClasses
StudentIds    == 1..MaxStudents
AssignmentIds == 1..MaxAssignments

Next ==
    \/ \E b \in Sessions, pw \in AdminInputs : admin_view(b, pw)
    \/ \E b \in Sessions : sign_out(b)
    \/ \E b \in Sessions, u \in Usernames \cup {""}, pw \in Passwords \cup {""},
          pw2 \in Passwords, salt \in Salts : teacher_signup(b, u, pw, pw2, salt)
    \/ \E b \in Sessions, u \in Usernames \cup {"nobody"}, pw \in Passwords : teacher_login(b, u, pw)
    \/ \E b \in Sessions, n \in Names \cup {""}, k \in Codes \cup {""} : student_join_lookup(b, n, k)
    \/ \E b \in Sessions : student_join_insert(b)
    \/ \E b \in Sessions : student_join_select(b)
    \/ \E b \in Sessions, aid \in AssignmentIds : student_mark_done_click(b, aid)
    \/ \E b \in Sessions : student_mark_done_insert(b)
    \/ \E b \in Sessions : student_mark_done_update(b)
    \/ \E b \in Sessions, aid \in AssignmentIds : student_undo_click(b, aid)
    \/ \E b \in Sessions : student_undo_update(b)
    \/ \E b \in Sessions, n \in Names : student_update_name(b, n)
    \/ \E b \in Sessions, k \in Codes : create_class(b, k)
    \/ \E b \in Sessions, cid \in ClassIds, t \in Titles, due \in Dues :
          add_assignment(b, cid, t, due)
    \/ \E b \in Sessions, cid \in ClassIds, k \in Codes : regenerate_code(b, cid, k)
    \/ \E b \in Sessions, cid \in ClassIds : delete_class(b, cid)
    \/ \E b \in Sessions, cid \in ClassIds, aid \in AssignmentIds, sid \in StudentIds :
          teacher_mark_done_click(b, cid, aid, sid)
    \/ \E b \in Sessions : teacher_mark_done_insert(b)
    \/ \E b \in Sessions : teacher_mark_done_update(b)
    \/ \E b \in Sessions, cid \in ClassIds, aid \in AssignmentIds, sid \in StudentIds :
          teacher_undo_click(b, cid, aid, sid)
    \/ \E b \in Sessions : teacher_undo_update(b)

Spec == Init /\ [][Next]_vars

\* ------------------------------------------------------------ scenarios
\* The whole system's state space is beyond exhaustive search, so each family
\* of operations is also explored on its own, from Init or from a state the
\* whole system reaches.

\* Accounts: sign-up, login and sign-out, from the empty database.
NextAuth ==
    \/ \E b \in Sessions : sign_out(b)
    \/ \E b \in Sessions, u \in Usernames \cup {""}, pw \in Passwords \cup {""},
          pw2 \in Passwords, salt \in Salts : teacher_signup(b, u, pw, pw2, salt)
    \/ \E b \in Sessions, u \in Usernames \cup {"nobody"}, pw \in Passwords : teacher_login(b, u, pw)

InitAuth == Init /\ secrets = Deployed

SpecAuth == InitAuth /\ [][NextAuth]_vars

Teacher(id, username) ==
    [id |-> id, username |-> username, password_hash |-> hash_password("hunter22", "salt1")]

\* ms_lee signed up in b1, then mr_kim in b2; b3 holds no cookie.
InitSchool ==
    /\ teachers = {Teacher(1, "ms_lee"), Teacher(2, "mr_kim")}
    /\ classes = {}
    /\ students = {}
    /\ assignments = {}
    /\ submissions = {}
    /\ seq = [teachers |-> 2, classes |-> 0, students |-> 0, assignments |-> 0, submissions |-> 0]
    /\ cookies = [b \in Sessions |->
                     IF b = "b1" THEN set_teacher_cookie(NoCookies, 1, "ms_lee")
                     ELSE IF b = "b2" THEN set_teacher_cookie(NoCookies, 2, "mr_kim")
                     ELSE NoCookies]
    /\ pc = [b \in Sessions |-> Idle]
    /\ last = [b |-> "b2", op |-> "teacher_signup", res |-> "ok"]
    /\ secrets = Deployed

\* Class management: the dashboard's operations on classes and assignments.
NextManage ==
    \/ \E b \in Sessions, k \in Codes : create_class(b, k)
    \/ \E b \in Sessions, cid \in ClassIds, t \in Titles, due \in Dues :
          add_assignment(b, cid, t, due)
    \/ \E b \in Sessions, cid \in ClassIds, k \in Codes : regenerate_code(b, cid, k)
    \/ \E b \in Sessions, cid \in ClassIds : delete_class(b, cid)

SpecManage == InitSchool /\ [][NextManage]_vars

\* ms_lee (b1) has created one class; the other codes match no class.
InitClasses ==
    /\ teachers = {Teacher(1, "ms_lee")}
    /\ classes = {[id |-> 1, teacher_id |-> 1, access_code |-> AllCodes[1]]}
    /\ students = {}
    /\ assignments = {}
    /\ submissions = {}
    /\ seq = [teachers |-> 1, classes |-> 1, students |-> 0, assignments |-> 0,
              submissions |-> 0]
    /\ cookies = [b \in Sessions |->
                     IF b = "b1" THEN set_teacher_cookie(NoCookies, 1, "ms_lee") ELSE NoCookies]
    /\ pc = [b \in Sessions |-> Idle]
    /\ last = [b |-> "b1", op |-> "create_class", res |-> "ok"]
    /\ secrets = Deployed

\* Joins only: every browser joins, signs out and joins again.
NextJoin ==
    \/ \E b \in Sessions : sign_out(b)
    \/ \E b \in Sessions, n \in Names \cup {""}, k \in Codes \cup {""} : student_join_lookup(b, n, k)
    \/ \E b \in Sessions : student_join_insert(b)
    \/ \E b \in Sessions : student_join_select(b)

SpecJoin == InitClasses /\ [][NextJoin]_vars

\* ms_lee (b1) runs class 1 with one assignment and MaxStudents students; b2
\* is the first student's browser, b3 a second browser of the same student or
\* the browser of another student of the class.
InitClassroom ==
    /\ teachers = {Teacher(1, "ms_lee")}
    /\ classes = {[id |-> 1, teacher_id |-> 1, access_code |-> AllCodes[1]]}
    /\ students = {[id |-> i, name |-> AllNames[i], class_id |-> 1] : i \in 1..MaxStudents}
    /\ assignments = {[id |-> 1, class_id |-> 1, title |-> "Essay", due_date |-> NULL]}
    /\ submissions = {}
    /\ seq = [teachers |-> 1, classes |-> 1, students |-> MaxStudents,
              assignments |-> 1, submissions |-> 0]
    /\ \E i \in 1..MaxStudents :
          cookies = [b \in Sessions |->
                       IF b = "b1" THEN set_teacher_cookie(NoCookies, 1, "ms_lee")
                       ELSE IF b = "b2" THEN set_student_cookie(NoCookies, 1, 1, AllNames[1])
                       ELSE set_student_cookie(NoCookies, i, 1, AllNames[i])]
    /\ pc = [b \in Sessions |-> Idle]
    /\ last = [b |-> "b3", op |-> "student_join_select", res |-> "ok"]
    /\ secrets = Deployed

\* The classroom: both toggles from both sides, the profile form, and the
\* class's deletion.
NextClassroom ==
    \/ \E b \in Sessions, n \in Names : student_update_name(b, n)
    \/ \E b \in Sessions, aid \in AssignmentIds : student_mark_done_click(b, aid)
    \/ \E b \in Sessions : student_mark_done_insert(b)
    \/ \E b \in Sessions : student_mark_done_update(b)
    \/ \E b \in Sessions, aid \in AssignmentIds : student_undo_click(b, aid)
    \/ \E b \in Sessions : student_undo_update(b)
    \/ \E b \in Sessions, cid \in ClassIds, aid \in AssignmentIds, sid \in StudentIds :
          teacher_mark_done_click(b, cid, aid, sid)
    \/ \E b \in Sessions : teacher_mark_done_insert(b)
    \/ \E b \in Sessions : teacher_mark_done_update(b)
    \/ \E b \in Sessions, cid \in ClassIds, aid \in AssignmentIds, sid \in StudentIds :
          teacher_undo_click(b, cid, aid, sid)
    \/ \E b \in Sessions : teacher_undo_update(b)
    \/ \E b \in Sessions, cid \in ClassIds : delete_class(b, cid)

SpecClassroom == InitClassroom /\ [][NextClassroom]_vars

\* ms_lee (b1) runs classes 1 and 2; class 1 has three assignments with any
\* due dates and one student, Ava (b2); the fourth assignment is class 2's.
InitList ==
    /\ teachers = {Teacher(1, "ms_lee")}
    /\ classes = {[id |-> 1, teacher_id |-> 1, access_code |-> AllCodes[1]],
                  [id |-> 2, teacher_id |-> 1, access_code |-> AllCodes[2]]}
    /\ students = {[id |-> 1, name |-> AllNames[1], class_id |-> 1]}
    /\ \E due \in [1..3 -> Dues] :
          assignments = {[id |-> i, class_id |-> 1, title |-> "Essay", due_date |-> due[i]]
                           : i \in 1..3}
                        \cup {[id |-> 4, class_id |-> 2, title |-> "Essay", due_date |-> NULL]}
    /\ submissions = {}
    /\ seq = [teachers |-> 1, classes |-> 2, students |-> 1, assignments |-> 4,
              submissions |-> 0]
    /\ cookies = [b \in Sessions |->
                     IF b = "b1" THEN set_teacher_cookie(NoCookies, 1, "ms_lee")
                     ELSE IF b = "b2" THEN set_student_cookie(NoCookies, 1, 1, AllNames[1])
                     ELSE NoCookies]
    /\ pc = [b \in Sessions |-> Idle]
    /\ last = [b |-> "b1", op |-> "add_assignment", res |-> "ok"]
    /\ secrets = Deployed

\* The student's page: the list is shown on every run, the toggles change it.
NextList ==
    \/ \E b \in Sessions, aid \in 1..4 : student_mark_done_click(b, aid)
    \/ \E b \in Sessions : student_mark_done_insert(b)
    \/ \E b \in Sessions : student_mark_done_update(b)
    \/ \E b \in Sessions, aid \in 1..4 : student_undo_click(b, aid)
    \/ \E b \in Sessions : student_undo_update(b)

SpecList == InitList /\ [][NextList]_vars

\* Two teachers, each with a class of one student: ms_lee (b1) owns class 1
\* with Ava, mr_kim (b2) owns class 2 with Ben; no assignment yet.
InitOwners ==
    /\ teachers = {Teacher(1, "ms_lee"), Teacher(2, "mr_kim")}
    /\ classes = {[id |-> 1, teacher_id |-> 1, access_code |-> AllCodes[1]],
                  [id |-> 2, teacher_id |-> 2, access_code |-> AllCodes[2]]}
    /\ students = {[id |-> 1, name |-> AllNames[1], class_id |-> 1],
                   [id |-> 2, name |-> AllNames[2], class_id |-> 2]}
    /\ assignments = {}
    /\ submissions = {}
    /\ seq = [teachers |-> 2, classes |-> 2, students |-> 2, assignments |-> 0,
              submissions |-> 0]
    /\ cookies = [b \in Sessions |->
                     IF b = "b1" THEN set_teacher_cookie(NoCookies, 1, "ms_lee")
                     ELSE IF b = "b2" THEN set_teacher_cookie(NoCookies, 2, "mr_kim")
                     ELSE NoCookies]
    /\ pc = [b \in Sessions |-> Idle]
    /\ last = [b |-> "b2", op |-> "create_class", res |-> "ok"]
    /\ secrets = Deployed

\* Every mutation of a class that the dashboard offers (an assignment's title
\* and due date play no part in whose class it lands in).
NextOwners ==
    \/ \E b \in Sessions, cid \in 1..2 : add_assignment(b, cid, "Essay", NULL)
    \/ \E b \in Sessions, cid \in 1..2, k \in Codes : regenerate_code(b, cid, k)
    \/ \E b \in Sessions, cid \in 1..2 : delete_class(b, cid)
    \/ \E b \in Sessions, cid \in 1..2, aid \in AssignmentIds, sid \in 1..2 :
          teacher_mark_done_click(b, cid, aid, sid)
    \/ \E b \in Sessions : teacher_mark_done_insert(b)
    \/ \E b \in Sessions : teacher_mark_done_update(b)
    \/ \E b \in Sessions, cid \in 1..2, aid \in AssignmentIds, sid \in 1..2 :
          teacher_undo_click(b, cid, aid, sid)
    \/ \E b \in Sessions : teacher_undo_update(b)

SpecOwners == InitOwners /\ [][NextOwners]_vars

\* The admin page, opened from browsers that hold a teacher's cookie (b1), a
\* student's (b2) or none (b3), under each configuration of the secret.
InitAdmin ==
    /\ teachers = {Teacher(1, "ms_lee")}
    /\ classes = {[id |-> 1, teacher_id |-> 1, access_code |-> AllCodes[1]]}
    /\ students = {[id |-> 1, name |-> AllNames[1], class_id |-> 1]}
    /\ assignments = {}
    /\ submissions = {}
    /\ seq = [teachers |-> 1, classes |-> 1, students |-> 1, assignments |-> 0,
              submissions |-> 0]
    /\ cookies = [b \in Sessions |->
                     IF b = "b1" THEN set_teacher_cookie(NoCookies, 1, "ms_lee")
                     ELSE IF b = "b2" THEN set_student_cookie(NoCookies, 1, 1, AllNames[1])
                     ELSE NoCookies]
    /\ pc = [b \in Sessions |-> Idle]
    /\ last = [b |-> "b2", op |-> "student_join_select", res |-> "ok"]
    /\ secrets \in AdminSecrets

NextAdmin ==
    \/ \E b \in Sessions, pw \in AdminInputs : admin_view(b, pw)
    \/ \E b \in Sessions : sign_out(b)
    \/ \E b \in Sessions, u \in Usernames, pw \in Passwords : teacher_login(b, u, pw)

SpecAdmin == InitAdmin /\ [][NextAdmin]_vars

\* ================================================================ claims
RowsFor(rows, aid, sid) == {r \in rows : r.assignment_id = aid /\ r.student_id = sid}

\* C1: right after DELETE FROM classes WHERE id = C no student and no
\* assignment of class C is left, and no submission refers to one of C's
\* former assignments or students.
C1_DeleteClassCascades ==
    [][\A cid \in ClassIds :
         (last'.op = "delete_class" /\ cid \in Ids(classes) /\ cid \notin Ids(classes'))
         => /\ \A r \in students' : r.class_id # cid
            /\ \A a \in assignments' : a.class_id # cid
            /\ \A r \in submissions' :
                  /\ r.assignment_id \notin Ids(AssignmentsOf(cid))
                  /\ r.student_id \notin Ids(StudentsOf(cid))]_vars

\* C2: under any interleaving of joins, a (name, class) pair has at most one
\* student row; a join that found its class always ends signed in as the one
\* row of its (name, class); and two browsers that joined with the same name
\* into the same class hold the same student id.
C2_JoinIdempotent ==
    /\ [](\A r1, r2 \in students :
             (r1.name = r2.name /\ r1.class_id = r2.class_id) => r1 = r2)
    /\ [](\A b, c \in Sessions :
             (/\ cookies[b].role = "student" /\ cookies[c].role = "student"
              /\ cookies[b].student_name = cookies[c].student_name
              /\ cookies[b].class_id = cookies[c].class_id)
             => cookies[b].student_id = cookies[c].student_id)
    /\ [][\A b \in Sessions :
            (pc[b].at = "join_select" /\ pc'[b].at = "idle")
            => /\ last' = [b |-> b, op |-> "student_join_select", res |-> "ok"]
               /\ cookies'[b].role = "student"
               /\ cookies'[b].student_name = pc[b].name
               /\ cookies'[b].class_id = pc[b].cid
               /\ {r.id : r \in {q \in students' : q.name = pc[b].name /\ q.class_id = pc[b].cid}}
                     = {cookies'[b].student_id}]_vars

\* Two browsers joined with the same name and code, one after the other's
\* INSERT, and both are signed in as student 1, the only row.
C2_Witness ==
    /\ cookies["b2"].role = "student" /\ cookies["b3"].role = "student"
    /\ cookies["b2"].student_id = 1 /\ cookies["b3"].student_id = 1
    /\ cookies["b2"].student_name = cookies["b3"].student_name
    /\ Cardinality(students) = 1
    /\ last.op = "student_join_select"

\* C3: no toggle sequence leaves two submission rows for one (assignment,
\* student) pair, and every student mark-done, first or after an undo, ends
\* with exactly one row for the pair, status done, completed_at set.
C3_ToggleOneRow ==
    /\ [](\A r1, r2 \in submissions :
             (r1.assignment_id = r2.assignment_id /\ r1.student_id = r2.student_id) => r1 = r2)
    /\ [][\A b \in Sessions :
            (pc[b].at \in {"mkdone_insert", "mkdone_update"} /\ pc'[b].at = "idle")
            => \E r \in submissions' :
                  /\ RowsFor(submissions', pc[b].aid, pc[b].sid) = {r}
                  /\ r.status = "done"
                  /\ r.completed_at # NULL]_vars

\* A student's mark-done has just gone through the UPDATE path on a row that
\* an earlier mark-done created, and the row is done again.
C3_Witness ==
    /\ last.op = "student_mark_done_update"
    /\ \E r \in submissions :
          /\ r.student_id = cookies[last.b].student_id
          /\ r.status = "done" /\ r.completed_at # NULL
          /\ Cardinality(RowsFor(submissions, r.assignment_id, r.student_id)) = 1

\* C4: whatever the interleaving of two sessions' mark-done statements on one
\* (assignment, student) pair, each mark-done ends without an uncaught error
\* and with exactly one row for the pair, status done.
MarkDoneWrites == {"mkdone_insert", "mkdone_update", "tdone_insert", "tdone_update"}

C4_ConcurrentMarkDone ==
    [][\A b \in Sessions :
         (pc[b].at \in MarkDoneWrites /\ pc'[b] # pc[b])
         => /\ Cardinality(RowsFor(submissions', pc[b].aid, pc[b].sid)) <= 1
            /\ pc'[b].at = "idle" =>
                 /\ last'.b = b /\ last'.res = "ok"
                 /\ \E r \in submissions' :
                       /\ RowsFor(submissions', pc[b].aid, pc[b].sid) = {r}
                       /\ r.status = "done"]_vars

\* Two sessions clicked "Mark done" on the same pair; the other's INSERT went
\* first and this one's INSERT raised, so it stands before its UPDATE.
C4_Witness ==
    \E b, c \in Sessions :
        /\ b # c
        /\ pc[b].at \in {"mkdone_update", "tdone_update"}
        /\ last.b = c
        /\ last.op \in {"student_mark_done_insert", "teacher_mark_done_insert"}
        /\ \E r \in RowsFor(submissions, pc[b].aid, pc[b].sid) :
              r.id = seq.submissions /\ r.status = "done"

\* C5: when "Regenerate code" completes on a class whose code was K, the
\* class's code is no longer K and the join lookup of K finds no class.
C5_RegenerateChangesCode ==
    [][\A b \in Sessions, cid \in ClassIds, k \in Codes :
         (regenerate_code(b, cid, k) /\ last'.res = "ok")
         => \A c \in classes : c.id = cid =>
               /\ \A d \in classes' : d.id = cid => d.access_code # c.access_code
               /\ {d \in classes' : d.access_code = c.access_code} = {}]_vars

\* C6: creating a class with a freshly drawn code that an existing class
\* already holds still ends without error and with exactly one more class
\* row, whose code no other class holds.
C6_CreateClassRetries ==
    [][\A b \in Sessions, k \in Codes :
         (create_class(b, k) /\ \E c \in classes : c.access_code = k)
         => /\ last'.res = "ok"
            /\ \E n \in classes' :
                  /\ n \notin classes
                  /\ classes' = classes \cup {n}
                  /\ \A c \in classes : c.access_code # n.access_code]_vars

\* C7: "Add assignment" with an empty title ends in a validation error and
\* leaves the assignments table as it was.
C7_BlankTitleRejected ==
    [][\A b \in Sessions, cid \in ClassIds, due \in Dues :
         add_assignment(b, cid, "", due)
         => /\ last'.res = "ValidationError"
            /\ assignments' = assignments]_vars

\* C8: teacher usernames are unique in every state, and a sign-up with a
\* username that exists leaves the teachers table and every cookie jar as
\* they were, ending in "username taken" (or, when the form itself is
\* invalid, in the form's validation error).
C8_DuplicateUsername ==
    /\ [](\A t1, t2 \in teachers : t1.username = t2.username => t1 = t2)
    /\ [][\A b \in Sessions, u \in Usernames, pw \in Passwords \cup {""},
            pw2 \in Passwords, salt \in Salts :
            (teacher_signup(b, u, pw, pw2, salt) /\ \E t \in teachers : t.username = u)
            => /\ teachers' = teachers
               /\ cookies' = cookies
               /\ last'.op = "teacher_signup"
               /\ last'.res = IF pw # "" /\ pw = pw2 THEN "UsernameTaken"
                                                     ELSE "ValidationError"]_vars

\* A sign-up has just been refused because the username exists.
C8_Witness ==
    /\ last.op = "teacher_signup" /\ last.res = "UsernameTaken"
    /\ teachers # {}

\* C9: no teacher or student operation ends with the raw IntegrityError.
C9_NoRawIntegrityError == last.res # "IntegrityError"

\* C10: a browser's cookie becomes a teacher session for teacher T only in
\* the sign-up step that inserted T, or in a login step with T's username and
\* a password of which T's stored hash is a hash; and a login with an unknown
\* username or another password reports invalid credentials and changes
\* neither the cookies nor the database.
C10_TeacherSession ==
    /\ [][\A b \in Sessions :
            (cookies'[b] # cookies[b] /\ cookies'[b].role = "teacher")
            => \/ /\ last' = [b |-> b, op |-> "teacher_signup", res |-> "ok"]
                  /\ cookies'[b].teacher_id \notin Ids(teachers)
                  /\ \E t \in teachers' :
                        /\ t.id = cookies'[b].teacher_id
                        /\ t.username = cookies'[b].teacher_username
               \/ /\ last' = [b |-> b, op |-> "teacher_login", res |-> "ok"]
                  /\ \E t \in teachers, u \in Usernames, pw \in Passwords :
                        /\ teacher_login(b, u, pw)
                        /\ t.id = cookies'[b].teacher_id
                        /\ t.username = u
                        /\ \E salt \in Salts : t.password_hash = hash_password(pw, salt)]_vars
    /\ [][\A b \in Sessions, u \in Usernames \cup {"nobody"}, pw \in Passwords :
            (/\ teacher_login(b, u, pw)
             /\ \A t \in teachers, salt \in Salts :
                   ~(t.username = u /\ t.password_hash = hash_password(pw, salt)))
            => /\ last' = [b |-> b, op |-> "teacher_login", res |-> "InvalidCredentials"]
               /\ cookies' = cookies
               /\ UNCHANGED db]_vars

\* A login with the right password has just opened a teacher session in a
\* browser other than the one that signed the teacher up.
C10_Witness ==
    /\ last.op = "teacher_login" /\ last.res = "ok"
    /\ cookies[last.b].role = "teacher"
    /\ cookies[last.b].teacher_id \in Ids(teachers)
\* The calendar date a due_date text stands for, and the calendar's order
DateOf(text) == CHOOSE d \in DateInputs : isoformat(d) = text

Earlier(d, e) ==
    \/ d.year < e.year
    \/ d.year = e.year /\ d.month < e.month
    \/ d.year = e.year /\ d.month = e.month /\ d.day < e.day

SortedAsListed(L) ==
    \A i \in 1..Len(L), j \in 1..Len(L) :
       i < j =>
          \/ L[i].due_date # NULL /\ L[j].due_date = NULL
          \/ /\ L[i].due_date # NULL
             /\ L[j].due_date # NULL
             /\ Earlier(DateOf(L[i].due_date), DateOf(L[j].due_date))
          \/ L[i].due_date = L[j].due_date /\ L[i].id > L[j].id

EachOnce(L, rows) ==
    /\ \A i \in 1..Len(L) : L[i].id \in Ids(rows)
    /\ \A a \in rows : Cardinality({i \in 1..Len(L) : L[i].id = a.id}) = 1

\* C11: the assignment list of every class, as the teacher sees it and as each
\* student of the class sees it, is in due-date order with the undated
\* assignments after all dated ones and, among equal due dates (undated
\* included), the higher id first; it holds each assignment of the class
\* exactly once, and shows "pending" where the student has no submission row.
C11_AssignmentList ==
    /\ \A c \in classes :
          LET L == TeacherAssignmentList(c.id) IN
          SortedAsListed(L) /\ EachOnce(L, AssignmentsOf(c.id))
    /\ \A st \in students :
          LET L == StudentAssignmentList(st.id, st.class_id) IN
          /\ SortedAsListed(L)
          /\ EachOnce(L, AssignmentsOf(st.class_id))
          /\ \A i \in 1..Len(L) :
                RowsFor(submissions, L[i].id, st.id) = {} => L[i].status = "pending"

\* Ava's list holds two assignments due the same day before an undated one,
\* one of them done and another without a submission row.
C11_Witness ==
    LET L == StudentAssignmentList(1, 1) IN
    /\ Len(L) = 3
    /\ L[1].due_date # NULL
    /\ L[1].due_date = L[2].due_date
    /\ L[3].due_date = NULL
    /\ \E i \in 1..3 : L[i].status = "done"
    /\ \E i \in 1..3 : RowsFor(submissions, L[i].id, 1) = {}

\* C12: the dashboard's toggle of the pair (assignment, student) does to the
\* submissions table what the student's own toggle of that pair does: its
\* button is offered in the states where the student's is, it targets the row
\* of that student and assignment, its INSERT, its UPDATE after the conflict
\* and its undo UPDATE change the table exactly as the student page's
\* statements would from the same state, and it writes no other row.
C12_TogglesEquivalent ==
    [][\A b \in Sessions :
          LET aid == pc[b].aid
              sid == pc[b].sid IN
          /\ (pc[b].at = "idle" /\ pc'[b].at \in {"tdone_insert", "tundo_update"}) =>
                 /\ \E st \in students : /\ st.id = pc'[b].sid
                                         /\ st.class_id \in Ids(classes)
                                         /\ pc'[b].aid \in Ids(AssignmentsOf(st.class_id))
                 /\ (pc'[b].at = "tdone_insert") = (StatusOf(pc'[b].aid, pc'[b].sid) # "done")
          /\ (pc[b].at = "tdone_insert" /\ pc'[b].at = "tdone_update") =>
                 InsertSubmissionRaises(aid, sid) /\ UNCHANGED <<submissions, seq>>
          /\ (pc[b].at = "tdone_insert" /\ pc'[b].at = "idle") =>
                 ~InsertSubmissionRaises(aid, sid) /\ InsertSubmissionDone(aid, sid)
          /\ (pc[b].at = "tdone_update" /\ pc'[b].at = "idle") =>
                 UpdateSubmissionDone(aid, sid)
          /\ (pc[b].at = "tundo_update" /\ pc'[b].at = "idle") =>
                 UpdateSubmissionPending(aid, sid)]_vars

\* The teacher has undone a student's completion: the row is pending again
\* and carries no timestamp.
C12_Witness ==
    /\ last.op = "teacher_undo_update"
    /\ \E r \in submissions : r.status = "pending" /\ r.completed_at = NULL

\* What a step of session b changes lies within the classes of b's teacher
OwnClassOnly(b) ==
    LET T      == cookies[b].teacher_id
        mine   == {c \in classes : c.teacher_id = T}
        myAsg  == {a \in assignments : a.class_id \in Ids(mine)}
        myStu  == {r \in students : r.class_id \in Ids(mine)}
        touched == (submissions' \ submissions) \cup (submissions \ submissions') IN
    /\ cookies[b].role = "teacher"
    /\ \A c \in classes : c \notin mine => c \in classes'
    /\ \A c \in classes' \ classes : c.teacher_id = T /\ c.id \in Ids(mine)
    /\ \A a \in assignments' \ assignments : a.class_id \in Ids(mine)
    /\ assignments \subseteq assignments'
    /\ \A r \in touched : r.assignment_id \in Ids(myAsg) /\ r.student_id \in Ids(myStu)
    /\ pc'[b].at # "idle" => pc'[b].aid \in Ids(myAsg) /\ pc'[b].sid \in Ids(myStu)

\* C13: every step of a dashboard operation of session b (regenerate code,
\* delete class, add assignment, toggle a submission) changes only rows of
\* classes whose teacher_id is the teacher_id of b's cookie: classes of other
\* teachers keep their rows and codes, and get no assignment and no
\* submission change.
C13_Ownership ==
    [][\A b \in Sessions :
          (\/ \E cid \in 1..2, t \in Titles, due \in Dues : add_assignment(b, cid, t, due)
           \/ \E cid \in 1..2, k \in Codes : regenerate_code(b, cid, k)
           \/ \E cid \in 1..2 : delete_class(b, cid)
           \/ \E cid \in 1..2, aid \in AssignmentIds, sid \in 1..2 :
                 teacher_mark_done_click(b, cid, aid, sid)
           \/ teacher_mark_done_insert(b)
           \/ teacher_mark_done_update(b)
           \/ \E cid \in 1..2, aid \in AssignmentIds, sid \in 1..2 :
                 teacher_undo_click(b, cid, aid, sid)
           \/ teacher_undo_update(b))
          => OwnClassOnly(b)]_vars

\* mr_kim has deleted his class, and ms_lee has added an assignment, marked
\* her student done and regenerated her class's code into the freed one.
C13_Witness ==
    /\ \E c \in classes : c.teacher_id = 1 /\ c.access_code = AllCodes[2]
    /\ \A c \in classes : c.teacher_id # 2
    /\ \E r \in submissions : r.status = "done"
    /\ last.op = "regenerate_code"
    /\ last.res = "ok"

\* C14: in every state that the students' and the teacher's toggles reach,
\* a submission row has a completed_at exactly when its status is done.
C14_StampIffDone ==
    \A r \in submissions : (r.completed_at # NULL) <=> (r.status = "done")

\* A student has undone a completion while another row of the table is done:
\* the undone row has no timestamp, the done row has one.
C14_Witness ==
    /\ last.op = "student_undo_update"
    /\ \E r \in submissions : r.status = "pending" /\ r.completed_at = NULL
    /\ \E r \in submissions : r.status = "done" /\ r.completed_at = UtcNow

\* C15: the admin panel opens exactly when secrets holds a non-empty
\* admin_password and the input equals it, whatever cookies the browser
\* holds; with the secret missing or empty no input opens it, the empty
\* input included.
C15_AdminGate ==
    /\ [](last.res = "admin_panel" =>
             \E p \in secrets : p[1] = "admin_password" /\ p[2] # "")
    /\ [][\A b \in Sessions, pw \in AdminInputs :
             admin_view(b, pw) =>
                ((last'.res = "admin_panel") <=>
                    \E p \in secrets : /\ p[1] = "admin_password"
                                        /\ p[2] # ""
                                        /\ pw = p[2])]_vars

\* The panel has opened in the browser that holds the teacher's cookie.
C15_Witness ==
    /\ last.op = "admin_view"
    /\ last.res = "admin_panel"
    /\ last.b = "b1"
    /\ cookies["b1"].role = "teacher"

====
